---- MODULE Spec2Model ----
(***************************************************************************)
(* The Telegram study-group bot of src/main.py: the per-chat conversation  *)
(* history kept in context.chat_data, the reply-mode registry              *)
(* chat_reply_modes, the routing done by handle_message and the generation *)
(* call made by generate_and_reply / generate_gemini_answer, the command   *)
(* handlers run_bot registers, and the login of the Flask web panel.       *)
(*                                                                         *)
(* A text is a sequence of characters (one-character strings).  A fixed    *)
(* notice that no string function touches is a sequence of opaque pieces.  *)
(***************************************************************************)
EXTENDS Integers, Sequences, FiniteSets, TLC

\* ------------------------------------------------------------------ bounds
\* Number of updates one behaviour of Spec and StoreSpec handles.
MaxUpdates == 2
\* Longest message text RouteSpec enumerates.
MaxLen == 4

\* ------------------------------------------------------- program constants
\* deque(maxlen=20)
maxlen == 20

\* ------------------------------------------------------------------- chats
\* Chat ids: a private chat carries the user's id, a group a negative id.
PrivateChats == {7}
GroupChats == {-7, -8}
Chats == PrivateChats \cup GroupChats

\* chat.type, as far as the handlers look at it (ChatType.PRIVATE or not).
\* Every chat taken for a group chat.
chat_type_all_group(c) == "group"

chat_type(c) == IF c \in PrivateChats THEN "private" ELSE "group"

\* ------------------------------------------------------- python str / deque
\* Characters str.strip() removes.
Whitespace == {" ", "\n", "\t"}

\* s[i:].startswith(p), i counted from 1.
startswith_at(s, i, p) ==
    /\ i + Len(p) - 1 <= Len(s)
    /\ \A k \in 1..Len(p) : s[i + k - 1] = p[k]

\* sub in s
str_contains(s, sub) ==
    \E i \in 1..(Len(s) + 1) : startswith_at(s, i, sub)

RECURSIVE replace_from(_, _, _, _)
replace_from(s, i, old, new) ==
    IF i > Len(s) THEN <<>>
    ELSE IF startswith_at(s, i, old)
         THEN new \o replace_from(s, i + Len(old), old, new)
         ELSE <<s[i]>> \o replace_from(s, i + 1, old, new)

RECURSIVE replace_first_from(_, _, _, _)
replace_first_from(s, i, old, new) ==
    IF i > Len(s) THEN <<>>
    ELSE IF startswith_at(s, i, old)
         THEN new \o SubSeq(s, i + Len(old), Len(s))
         ELSE <<s[i]>> \o replace_first_from(s, i + 1, old, new)

\* A replace that stops after the first occurrence (str.replace(old, new, 1)).
str_replace_count1(s, old, new) == replace_first_from(s, 1, old, new)

\* s.replace(old, new) for a non-empty old: every non-overlapping occurrence,
\* found scanning left to right, is replaced; the result is not rescanned.
str_replace(s, old, new) == replace_from(s, 1, old, new)

RECURSIVE str_lstrip(_)
str_lstrip(s) ==
    IF s # <<>> /\ Head(s) \in Whitespace THEN str_lstrip(Tail(s)) ELSE s

RECURSIVE str_rstrip(_)
str_rstrip(s) ==
    IF s # <<>> /\ s[Len(s)] \in Whitespace
    THEN str_rstrip(SubSeq(s, 1, Len(s) - 1)) ELSE s

\* A strip that trims the left end only (str.lstrip()).
str_strip_left_only(s) == str_lstrip(s)

\* s.strip()
str_strip(s) == str_rstrip(str_lstrip(s))

\* An append that ignores maxlen (a plain list).
list_append(d, x) == Append(d, x)

\* An append that makes room by dropping the two leftmost items.
deque_append_evict_two(d, x) ==
    LET a == Append(d, x) IN IF Len(a) > maxlen THEN Tail(Tail(a)) ELSE a

\* deque.append(x) on a deque(maxlen=20): a full deque drops its leftmost item.
deque_append(d, x) ==
    LET a == Append(d, x) IN IF Len(a) > maxlen THEN Tail(a) ELSE a

\* A rollback that removes nothing.
deque_pop_nothing(d) == d

\* deque.pop() on a non-empty deque: the rightmost item is removed.
deque_pop(d) == SubSeq(d, 1, Len(d) - 1)

\* ------------------------------------------------------------------ inputs
\* f"@{context.bot.username}" for a bot whose username is "b".
bot_username == <<"@", "b">>

\* Message texts of Spec and StoreSpec: no handle, one handle, two handles.
Texts == { <<"h", "i">>, <<"@", "b", " ", "h", "i">>, <<"@", "b", " ", "@", "b">> }

\* Message texts of RouteSpec: every non-empty text of at most MaxLen
\* characters over the characters of the handle and a blank.
MsgChars == {"@", "b", " "}
AllTexts == UNION { [1..n -> MsgChars] : n \in 1..MaxLen }

\* message.reply_to_message: absent, a message of the bot, a message of a user.
ReplyTo == {"none", "bot", "user"}

\* context.args of /replymode: no argument, accepted words in several
\* spellings, words that are not accepted, a second argument.
ModeArgs ==
    { <<>>,
      <<<<"t", "r", "u", "e">>>>, <<<<"O", "n">>>>, <<<<"Y", "E", "S">>>>,
      <<<<"f", "a", "l", "s", "e">>>>, <<<<"o", "F", "F">>>>, <<<<"N", "O">>>>,
      <<<<"m", "a", "y", "b", "e">>>>, <<<<"t", "r", "u">>>>,
      <<<<"m", "a", "y", "b", "e">>, <<"t", "r", "u", "e">>>> }

\* response.text of a call that returns: text, blank, text to be cleaned.
Responses == { <<"o", "k">>, <<" ">>, <<"\\", "\n", "o", "k", " ">> }

\* What send_message raises when it raises.
Exceptions == {"GoogleAPICallError", "Exception"}

NoText == <<>>
NoUpdate ==
    [kind |-> "none", chat |-> 0, has_message |-> FALSE, text |-> NoText,
     reply_to |-> "none", args |-> <<>>]

\* A text update (MessageHandler(filters.TEXT & ~filters.COMMAND)).
TextUpdate(c, t, r) ==
    [kind |-> "text", chat |-> c, has_message |-> TRUE, text |-> t,
     reply_to |-> r, args |-> <<>>]

\* An edited text message: update.message is None.
EditedUpdate(c, t) ==
    [kind |-> "text", chat |-> c, has_message |-> FALSE, text |-> t,
     reply_to |-> "none", args |-> <<>>]

\* A /replymode command with its arguments.
ModeUpdate(c, a) ==
    [kind |-> "replymode", chat |-> c, has_message |-> TRUE,
     text |-> <<"/replymode">>, reply_to |-> "none", args |-> a]

TextUpdates(T) ==
    { TextUpdate(c, t, r) : c \in Chats, t \in T, r \in ReplyTo }
        \cup { EditedUpdate(c, t) : c \in Chats, t \in T }

ModeUpdates == { ModeUpdate(c, a) : c \in Chats, a \in ModeArgs }

\* context.args of /ask: no question, one word, two words.
AskArgs ==
    { <<>>, <<<<"w", "h", "y">>>>, <<<<"w", "h", "y">>, <<"s", "o">>>> }

\* A command update: CommandHandler(kind, ...) with context.args = a.
CommandUpdate(kind, c, a) ==
    [kind |-> kind, chat |-> c, has_message |-> TRUE, text |-> <<"/", kind>>,
     reply_to |-> "none", args |-> a]

\* The chat the commands other than /replymode arrive from: one group chat.
CommandChats == GroupChats \ {-8}

AskUpdates == { CommandUpdate("ask", c, a) : c \in CommandChats, a \in AskArgs }
PlainCommandUpdates(kind) ==
    { CommandUpdate(kind, c, <<>>) : c \in CommandChats }

\* The text updates of Spec and of RouteSpec.
SpecTextUpdates == TextUpdates(Texts)
RouteTextUpdates == TextUpdates(AllTexts)

\* ------------------------------------------------------------------- state
VARIABLES
    chat_reply_modes,   \* the registry: a function from some chat ids to BOOLEAN
    chat_data,          \* per chat: whether 'history' is set, and the deque
    pc,                 \* where the handler of the current update stands
    update,             \* the update being handled (the last one when idle)
    prompt,             \* the prompt handed to generate_and_reply
    h_before,           \* chat_history as generate_gemini_answer received it
    request,            \* what start_chat / send_message were given
    outcome,            \* how the remote call ended
    response,           \* response.text of the remote call that returned
    raw_answer,         \* what generate_gemini_answer returned
    sent,               \* what the handler sent to Telegram for this update
    gen_calls,          \* generate_gemini_answer invocations for this update
    modes_before,       \* chat_reply_modes as the handler of this update found it
    fuel,               \* updates still to be handled
    session,            \* web panel: per browser, whether session['logged_in'] is set
    web_request,        \* web panel: the last request received
    web_response        \* web panel: the response to it

vars == <<chat_reply_modes, chat_data, pc, update, prompt, h_before, request,
          outcome, response, raw_answer, sent, gen_calls, modes_before, fuel,
          session, web_request, web_response>>

\* What the bot's handlers read and write, and what the web panel's views do.
bot_vars == <<chat_reply_modes, chat_data, pc, update, prompt, h_before, request,
              outcome, response, raw_answer, sent, gen_calls, modes_before, fuel>>
web_vars == <<session, web_request, web_response>>

NoRequest == [history |-> <<>>, message |-> NoText, made |-> FALSE]

\* {'role': ..., 'parts': [text]}
Turn(role, text) == [role |-> role, parts |-> <<text>>]

\* Every chat's handlers sharing the chat_data of one chat.
chat_key_shared(c) == CHOOSE k \in PrivateChats : TRUE

\* context.chat_data is the application's chat_data entry of the update's chat.
chat_key(c) == c

history_of(c) == chat_data[chat_key(c)].history

\* ------------------------------------------------------------ fixed strings
API_ERROR ==
    <<"A","P","I"," ","E","r","r","o","r",":"," ","C","o","u","l","d"," ",
      "n","o","t"," ","g","e","t"," ","a"," ","r","e","s","p","o","n","s","e",".">>

UNEXPECTED_ERROR ==
    <<"A","n"," ","u","n","e","x","p","e","c","t","e","d"," ",
      "e","r","r","o","r"," ","o","c","c","u","r","r","e","d",".">>

ONLY_GROUPS == <<"This command is only for group chats.">>
NOW_MENTION_ONLY == <<"Bot will now only reply when mentioned or replied to.">>
NOW_ALL_MESSAGES == <<"Bot will now reply to all messages in the group.">>
INVALID_OPTION == <<"Invalid option. Please use true or false.">>
\* f"Current reply mode: *{current_mode}*.\n\nUsage: ..." in pieces: every
\* character that means something to MarkdownV2 is a piece of its own, and
\* the code-span delimiter is written ' here.
CurrentMode(m) ==
    <<"Current reply mode: ", "*", m, "*", ".", "\n\nUsage: ",
      "'", "/replymode true", "'", " ", "(", "only reply on mention", ")",
      " or ",
      "'", "/replymode false", "'", " ", "(", "reply to all messages", ")",
      ".">>

ASK_USAGE == <<"Please provide a question after /ask.">>
START_TEXT == <<"Hello! I'm your study group bot. Ask me anything!">>
\* help_text, sent with parse_mode='Markdown'; its one markup is *Group Commands*.
HELP_TEXT == <<"Here's what I can do: ...">>
ABOUT_TEXT == <<"I am a study group assistant bot powered by Google's Gemini AI.">>
TIP_PROMPT == <<"Give a short, practical study tip.">>
EXAMPLE_PROMPT == <<"Provide a short example question with its answer.">>
QUIZ_PROMPT == <<"Give a short quiz question with a hidden answer.">>
FUNFACT_PROMPT == <<"Share a quick, fun fact about learning.">>
RULES_PROMPT == <<"Write 4 concise, polite group study rules with emojis.">>

\* parse_mode='MarkdownV2': outside a code span these characters have to be
\* escaped with a backslash, or sendMessage fails with BadRequest.
MarkdownV2Reserved ==
    {"_", "[", "]", "(", ")", "~", ">", "#", "+", "-", "=", "|", "{", "}", ".", "!"}

\* Whether text[i..] is well-formed MarkdownV2, read with a bold span and a
\* code span open or not.
RECURSIVE markdown_v2_from(_, _, _, _)
markdown_v2_from(text, i, bold, code) ==
    IF i > Len(text) THEN ~bold /\ ~code
    ELSE IF code THEN markdown_v2_from(text, i + 1, bold, text[i] # "'")
    ELSE IF text[i] = "\\" THEN i < Len(text) /\ markdown_v2_from(text, i + 2, bold, code)
    ELSE IF text[i] = "'" THEN markdown_v2_from(text, i + 1, bold, TRUE)
    ELSE IF text[i] = "*" THEN markdown_v2_from(text, i + 1, ~bold, code)
    ELSE text[i] \notin MarkdownV2Reserved /\ markdown_v2_from(text, i + 1, bold, code)

markdown_v2_parses(text) == markdown_v2_from(text, 1, FALSE, FALSE)

ChatAction(c) == [type |-> "typing", chat |-> c, text |-> NoText]
Reply(c, t) == [type |-> "reply", chat |-> c, text |-> t]

\* reply_text(t, parse_mode='MarkdownV2'): the message is sent if t parses;
\* otherwise the call raises BadRequest, which no handler catches, and
\* nothing is sent.
reply_text_markdown_v2(c, t) ==
    IF markdown_v2_parses(t) THEN <<Reply(c, t)>> ELSE <<>>

\* ----------------------------------------------------------------- routing
\* chat_reply_modes.get(chat.id, True): the default inverted.
mention_only_mode_default_true(c) ==
    IF c \in DOMAIN chat_reply_modes THEN chat_reply_modes[c] ELSE TRUE

\* chat_reply_modes.get(chat.id, False)
mention_only_mode(c) ==
    IF c \in DOMAIN chat_reply_modes THEN chat_reply_modes[c] ELSE FALSE

\* message.reply_to_message and message.reply_to_message.from_user.id == context.bot.id
is_reply_to_bot(u) == u.reply_to = "bot"

\* A mention test that looks at the start of the text only (text.startswith).
bot_is_mentioned_prefix_only(u) == startswith_at(u.text, 1, bot_username)

\* bot_username in (message.text or "")
bot_is_mentioned(u) == str_contains(u.text, bot_username)

\* message.text.replace(bot_username, "").strip()
mention_prompt(u) == str_strip(str_replace(u.text, bot_username, <<>>))

\* The prompt of a private chat with the handle stripped as in a group.
private_prompt_stripped(u) == mention_prompt(u)

\* update.message.text, as handed over for a private chat
private_prompt(u) == u.text

\* update.message.text, as handed over for a group that replies to all messages
group_prompt(u) == u.text

\* log_user_message: the wrapper returns unless the update has a message with text.
wrapper_passes(u) == u.has_message /\ u.text # <<>>

\* ---------------------------------------------------------------- handlers
\* The dispatcher takes the next update once the handler of the previous one
\* has returned: the Application is built without concurrent_updates and the
\* handlers are registered blocking.
dispatcher_free == pc = "idle" /\ fuel > 0

\* The wrapper is entered for update u; what the previous update left in the
\* handler's locals is gone.
Entry(u) ==
    /\ dispatcher_free
    /\ fuel' = fuel - 1
    /\ update' = u
    /\ h_before' = <<>>
    /\ request' = NoRequest
    /\ outcome' = "none"
    /\ response' = NoText
    /\ raw_answer' = NoText
    /\ gen_calls' = 0
    /\ modes_before' = chat_reply_modes
    /\ UNCHANGED web_vars

\* The handler returns after sending msgs, without a generation call.
Return(msgs) ==
    /\ pc' = "idle"
    /\ sent' = msgs
    /\ prompt' = NoText
    /\ UNCHANGED chat_data

\* generate_and_reply up to the to_thread call: the chat's history is created
\* when missing and the typing indicator is sent.
\* generate_and_reply without its send_chat_action.
generate_and_reply_no_typing(u, p) ==
    /\ chat_data' =
         IF chat_data[chat_key(u.chat)].has_history THEN chat_data
         ELSE [chat_data EXCEPT
                 ![chat_key(u.chat)] = [has_history |-> TRUE, history |-> <<>>]]
    /\ prompt' = p
    /\ sent' = <<>>
    /\ pc' = "typing"

generate_and_reply(u, p) ==
    /\ chat_data' =
         IF chat_data[chat_key(u.chat)].has_history THEN chat_data
         ELSE [chat_data EXCEPT
                 ![chat_key(u.chat)] = [has_history |-> TRUE, history |-> <<>>]]
    /\ prompt' = p
    /\ sent' = <<ChatAction(u.chat)>>
    /\ pc' = "typing"

handle_message(u) ==
    /\ Entry(u)
    /\ UNCHANGED chat_reply_modes
    /\ IF ~wrapper_passes(u) THEN Return(<<>>)
       ELSE IF chat_type(u.chat) = "private"
            THEN generate_and_reply(u, private_prompt(u))
       ELSE IF mention_only_mode(u.chat)
            THEN IF is_reply_to_bot(u) \/ bot_is_mentioned(u)
                 THEN generate_and_reply(u, mention_prompt(u))
                 ELSE Return(<<>>)
       ELSE generate_and_reply(u, group_prompt(u))

\* A lower() that was left out.
str_lower_missing(w) == w

\* chr.lower() on the letters the argument words are written with.
lower_char(ch) ==
    CASE ch = "A" -> "a" [] ch = "E" -> "e" [] ch = "F" -> "f" [] ch = "L" -> "l"
      [] ch = "N" -> "n" [] ch = "O" -> "o" [] ch = "R" -> "r" [] ch = "S" -> "s"
      [] ch = "T" -> "t" [] ch = "U" -> "u" [] ch = "Y" -> "y"
      [] OTHER -> ch

\* context.args[0].lower()
str_lower(w) == [i \in 1..Len(w) |-> lower_char(w[i])]

\* ["true", "on", "yes"] and ["false", "off", "no"]
TRUE_WORDS == { <<"t", "r", "u", "e">>, <<"o", "n">>, <<"y", "e", "s">> }
FALSE_WORDS == { <<"f", "a", "l", "s", "e">>, <<"o", "f", "f">>, <<"n", "o">> }

\* chat_reply_modes = {chat.id: v}: the registry replaced, not updated.
registry_set_fresh(c, v) == [k \in {c} |-> v]

\* A set that flips a flag that already has the value asked for.
registry_set_toggle(c, v) ==
    [k \in DOMAIN chat_reply_modes \cup {c} |->
        IF k = c
        THEN (IF c \in DOMAIN chat_reply_modes /\ chat_reply_modes[c] = v THEN ~v ELSE v)
        ELSE chat_reply_modes[k]]

\* chat_reply_modes[chat.id] = v
registry_set(c, v) ==
    [k \in DOMAIN chat_reply_modes \cup {c} |->
        IF k = c THEN v ELSE chat_reply_modes[k]]

\* The two mode names the wrong way round.
current_mode_swapped(c) ==
    IF mention_only_mode(c) THEN "all messages" ELSE "mention/reply"

\* "mention/reply" if chat_reply_modes.get(chat.id, False) else "all messages"
current_mode(c) ==
    IF mention_only_mode(c) THEN "mention/reply" ELSE "all messages"

set_reply_mode(u) ==
    /\ Entry(u)
    /\ IF ~wrapper_passes(u)
       THEN Return(<<>>) /\ UNCHANGED chat_reply_modes
       ELSE IF chat_type(u.chat) = "private"
            THEN Return(<<Reply(u.chat, ONLY_GROUPS)>>) /\ UNCHANGED chat_reply_modes
       ELSE IF u.args = <<>>
            THEN /\ Return(reply_text_markdown_v2(u.chat,
                                                    CurrentMode(current_mode(u.chat))))
                 /\ UNCHANGED chat_reply_modes
       ELSE IF str_lower(u.args[1]) \in TRUE_WORDS
            THEN /\ chat_reply_modes' = registry_set(u.chat, TRUE)
                 /\ Return(<<Reply(u.chat, NOW_MENTION_ONLY)>>)
       ELSE IF str_lower(u.args[1]) \in FALSE_WORDS
            THEN /\ chat_reply_modes' = registry_set(u.chat, FALSE)
                 /\ Return(<<Reply(u.chat, NOW_ALL_MESSAGES)>>)
       ELSE Return(<<Reply(u.chat, INVALID_OPTION)>>) /\ UNCHANGED chat_reply_modes

\* " ".join(context.args)
RECURSIVE str_join(_)
str_join(words) ==
    IF words = <<>> THEN <<>>
    ELSE IF Len(words) = 1 THEN words[1]
    ELSE words[1] \o <<" ">> \o str_join(Tail(words))

ask(u) ==
    /\ Entry(u)
    /\ UNCHANGED chat_reply_modes
    /\ IF ~wrapper_passes(u) THEN Return(<<>>)
       ELSE IF str_join(u.args) = <<>>
            THEN Return(<<Reply(u.chat, ASK_USAGE)>>)
       ELSE generate_and_reply(u, str_join(u.args))

\* A command handler that answers in a mention-only group only when addressed.
fixed_prompt_handler_gated(u, p) ==
    /\ Entry(u)
    /\ UNCHANGED chat_reply_modes
    /\ IF ~wrapper_passes(u) THEN Return(<<>>)
       ELSE IF chat_type(u.chat) # "private" /\ mention_only_mode(u.chat)
                 /\ ~(is_reply_to_bot(u) \/ bot_is_mentioned(u))
            THEN Return(<<>>)
       ELSE generate_and_reply(u, p)

\* A handler that hands a fixed prompt to generate_and_reply.
fixed_prompt_handler(u, p) ==
    /\ Entry(u)
    /\ UNCHANGED chat_reply_modes
    /\ IF ~wrapper_passes(u) THEN Return(<<>>) ELSE generate_and_reply(u, p)

tip(u) == fixed_prompt_handler(u, TIP_PROMPT)
example(u) == fixed_prompt_handler(u, EXAMPLE_PROMPT)
quiz(u) == fixed_prompt_handler(u, QUIZ_PROMPT)
funfact(u) == fixed_prompt_handler(u, FUNFACT_PROMPT)
rules(u) == fixed_prompt_handler(u, RULES_PROMPT)

\* A handler that only sends a fixed text.
fixed_reply_handler(u, t) ==
    /\ Entry(u)
    /\ UNCHANGED chat_reply_modes
    /\ IF ~wrapper_passes(u) THEN Return(<<>>) ELSE Return(<<Reply(u.chat, t)>>)

start(u) == fixed_reply_handler(u, START_TEXT)
help_command(u) == fixed_reply_handler(u, HELP_TEXT)
about(u) == fixed_reply_handler(u, ABOUT_TEXT)

\* ------------------------------------------------- generate_gemini_answer
\* asyncio.to_thread(generate_gemini_answer, prompt, chat_history): the user
\* turn is appended, the history is copied for start_chat and the prompt is
\* sent; the remote call is then in flight.
\* A copy taken before the user turn was appended.
snapshot_before_append(h) == deque_pop(h)

\* list(chat_history)
snapshot(h) == h

generate_gemini_answer_call ==
    /\ pc = "typing"
    /\ LET c == update.chat
           h == deque_append(history_of(c), Turn("user", prompt))
       IN /\ h_before' = history_of(c)
          /\ chat_data' = [chat_data EXCEPT ![chat_key(c)].history = h]
          /\ request' = [history |-> snapshot(h), message |-> prompt, made |-> TRUE]
    /\ gen_calls' = gen_calls + 1
    /\ pc' = "remote"
    /\ UNCHANGED <<chat_reply_modes, update, prompt, outcome, response, raw_answer,
                   sent, modes_before, fuel, web_vars>>

\* A model turn appended whatever the text is.
model_turn_always(h, text) == deque_append(h, Turn("model", text))

\* if full_response_text.strip(): chat_history.append(model turn)
model_turn(h, text) ==
    IF str_strip(text) # <<>> THEN deque_append(h, Turn("model", text)) ELSE h

\* A return value with its whitespace trimmed (return full_response_text.strip()).
returned_text_stripped(text) == str_strip(text)

\* return full_response_text
returned_text(text) == text

\* send_message returns: response.text is text.
send_message_returns(text) ==
    /\ pc = "remote"
    /\ chat_data' = [chat_data EXCEPT
                       ![chat_key(update.chat)].history = model_turn(@, text)]
    /\ response' = text
    /\ raw_answer' = returned_text(text)
    /\ outcome' = "ok"
    /\ pc' = "returned"
    /\ UNCHANGED <<chat_reply_modes, update, prompt, h_before, request, sent,
                   gen_calls, modes_before, fuel, web_vars>>

\* Both failures answered with the same string.
error_answer_same(exc) == UNEXPECTED_ERROR

\* The string each except clause returns.
error_answer(exc) ==
    IF exc = "GoogleAPICallError" THEN API_ERROR ELSE UNEXPECTED_ERROR

\* A failure answered by calling the remote model once more.
send_message_raises_retry(exc) ==
    /\ pc = "remote"
    /\ chat_data' = [chat_data EXCEPT ![chat_key(update.chat)].history = deque_pop(@)]
    /\ outcome' = exc
    /\ pc' = IF gen_calls < 2 THEN "typing" ELSE "returned"
    /\ raw_answer' = error_answer(exc)
    /\ UNCHANGED <<chat_reply_modes, update, prompt, h_before, request, response,
                   sent, gen_calls, modes_before, fuel, web_vars>>

\* send_message (or response.text) raises exc: the except clause pops the
\* history and returns its string.  A pop from an empty deque raises IndexError
\* out of generate_gemini_answer and the handler ends without a reply.
send_message_raises(exc) ==
    /\ pc = "remote"
    /\ IF history_of(update.chat) = <<>>
       THEN /\ outcome' = "IndexError"
            /\ pc' = "idle"
            /\ UNCHANGED <<chat_data, raw_answer>>
       ELSE /\ chat_data' = [chat_data EXCEPT
                               ![chat_key(update.chat)].history = deque_pop(@)]
            /\ raw_answer' = error_answer(exc)
            /\ outcome' = exc
            /\ pc' = "returned"
    /\ UNCHANGED <<chat_reply_modes, update, prompt, h_before, request, response,
                   sent, gen_calls, modes_before, fuel, web_vars>>

\* raw_answer.replace('\\\n', '\n').strip()
clean_answer(raw) == str_strip(str_replace(raw, <<"\\", "\n">>, <<"\n">>))

\* generate_and_reply after the thread returned: the answer is cleaned and sent.
reply_text ==
    /\ pc = "returned"
    /\ sent' = Append(sent, Reply(update.chat, clean_answer(raw_answer)))
    /\ pc' = "idle"
    /\ UNCHANGED <<chat_reply_modes, chat_data, update, prompt, h_before, request,
                   outcome, response, raw_answer, gen_calls, modes_before, fuel, web_vars>>

\* ------------------------------------------------------------- web panel
\* Browsers, each with its own Flask session cookie.
Clients == {"c1", "c2"}

\* os.getenv("FLASK_PASSWORD"): set and not empty, or the process has exited.
FLASK_PASSWORD == "secret"

\* request.form of a POST to /login: no password field, the right password,
\* a wrong one.  <<>> is a form without the field.
Forms == { <<>>, <<"secret">>, <<"guess">> }

\* request.path of the routes.
LOGIN_PATH == <<"/", "l", "o", "g", "i", "n">>
LOGOUT_PATH == <<"/", "l", "o", "g", "o", "u", "t">>
INDEX_PATH == <<"/">>
LOG_STREAM_PATH == <<"/", "l", "o", "g", "_", "s", "t", "r", "e", "a", "m">>
FILES_PATH == <<"/", "f", "i", "l", "e", "s">>
VIEW_PREFIX == <<"/", "v", "i", "e", "w">>
DOWNLOAD_PREFIX == <<"/", "d", "o", "w", "n", "l", "o", "a", "d">>
DOWNLOAD_ZIP_PATH == DOWNLOAD_PREFIX \o <<"_", "z", "i", "p">>

\* <path:filepath> of /view and /download.
FilePaths == { <<"a">>, <<"f", "i", "l", "e", "s">>, <<"v", "i", "e", "w", "/", "a">> }

\* ('/files', '/log_stream', '/view')
JSON_PREFIXES == { FILES_PATH, LOG_STREAM_PATH, VIEW_PREFIX }

NoWebRequest ==
    [client |-> "none", method |-> "none", endpoint |-> "none", path |-> <<>>,
     form |-> <<>>]
NoWebResponse == [status |-> 0, location |-> "none", ran |-> "none"]

WebInit ==
    /\ session = [cl \in Clients |-> FALSE]
    /\ web_request = NoWebRequest
    /\ web_response = NoWebResponse

\* Any password let in.
password_ok_any(form) == TRUE

\* request.form.get('password') == FLASK_PASSWORD
password_ok(form) == form # <<>> /\ form[1] = FLASK_PASSWORD

\* The statuses the body of a view can answer with.
BodyStatuses(endpoint) ==
    CASE endpoint = "list_files" -> {200, 403, 404}
      [] endpoint = "view_file" -> {200, 403}
      [] endpoint = "download_file" -> {200, 403, 404, 500}
      [] OTHER -> {200}

\* A GET of a view wrapped in login_required: without the flag the request
\* is answered 401 on the three path prefixes and redirected to the login
\* page elsewhere; with it the view's body runs.
login_required(cl, endpoint, path) ==
    /\ web_request' = [client |-> cl, method |-> "GET", endpoint |-> endpoint,
                       path |-> path, form |-> <<>>]
    /\ IF ~session[cl]
       THEN IF \E p \in JSON_PREFIXES : startswith_at(path, 1, p)
            THEN web_response' = [status |-> 401, location |-> "none", ran |-> "none"]
            ELSE web_response' = [status |-> 302, location |-> "login", ran |-> "none"]
       ELSE \E st \in BodyStatuses(endpoint) :
               web_response' = [status |-> st, location |-> "none", ran |-> endpoint]
    /\ UNCHANGED session
    /\ UNCHANGED bot_vars

login(cl, method, form) ==
    /\ web_request' = [client |-> cl, method |-> method, endpoint |-> "login",
                       path |-> LOGIN_PATH, form |-> form]
    /\ IF method = "POST" /\ password_ok(form)
       THEN /\ session' = [session EXCEPT ![cl] = TRUE]
            /\ web_response' = [status |-> 302, location |-> "next or index",
                                ran |-> "login"]
       ELSE /\ UNCHANGED session
            /\ web_response' = [status |-> 200, location |-> "none", ran |-> "login"]
    /\ UNCHANGED bot_vars

logout(cl) ==
    /\ web_request' = [client |-> cl, method |-> "GET", endpoint |-> "logout",
                       path |-> LOGOUT_PATH, form |-> <<>>]
    /\ session' = [session EXCEPT ![cl] = FALSE]
    /\ web_response' = [status |-> 302, location |-> "login", ran |-> "logout"]
    /\ UNCHANGED bot_vars

index(cl) == login_required(cl, "index", INDEX_PATH)
log_stream(cl) == login_required(cl, "log_stream", LOG_STREAM_PATH)
list_files(cl) == login_required(cl, "list_files", FILES_PATH)
view_file(cl, filepath) ==
    login_required(cl, "view_file", VIEW_PREFIX \o <<"/">> \o filepath)
download_file(cl, filepath) ==
    login_required(cl, "download_file", DOWNLOAD_PREFIX \o <<"/">> \o filepath)
download_zip(cl) == login_required(cl, "download_zip", DOWNLOAD_ZIP_PATH)

\* ---------------------------------------------------------- specifications
NoHistory == [has_history |-> FALSE, history |-> <<>>]

\* The registry chat_reply_modes = {}, no chat_data, no browser logged in.
Init ==
    /\ chat_reply_modes = <<>>
    /\ chat_data = [c \in Chats |-> NoHistory]
    /\ pc = "idle"
    /\ update = NoUpdate
    /\ prompt = NoText
    /\ h_before = <<>>
    /\ request = NoRequest
    /\ outcome = "none"
    /\ response = NoText
    /\ raw_answer = NoText
    /\ sent = <<>>
    /\ gen_calls = 0
    /\ modes_before = chat_reply_modes
    /\ fuel = MaxUpdates
    /\ WebInit

\* The bot handling updates, one at a time, with every handler of run_bot.
Next ==
    \/ dispatcher_free /\ \E u \in SpecTextUpdates : handle_message(u)
    \/ dispatcher_free /\ \E u \in ModeUpdates : set_reply_mode(u)
    \/ dispatcher_free /\ \E u \in AskUpdates : ask(u)
    \/ dispatcher_free /\ \E u \in PlainCommandUpdates("tip") : tip(u)
    \/ dispatcher_free /\ \E u \in PlainCommandUpdates("example") : example(u)
    \/ dispatcher_free /\ \E u \in PlainCommandUpdates("quiz") : quiz(u)
    \/ dispatcher_free /\ \E u \in PlainCommandUpdates("funfact") : funfact(u)
    \/ dispatcher_free /\ \E u \in PlainCommandUpdates("rules") : rules(u)
    \/ dispatcher_free /\ \E u \in PlainCommandUpdates("start") : start(u)
    \/ dispatcher_free /\ \E u \in PlainCommandUpdates("help") : help_command(u)
    \/ dispatcher_free /\ \E u \in PlainCommandUpdates("about") : about(u)
    \/ generate_gemini_answer_call
    \/ \E text \in Responses : send_message_returns(text)
    \/ \E exc \in Exceptions : send_message_raises(exc)
    \/ reply_text

Spec == Init /\ [][Next]_vars

\* A history a chat can have built up before the behaviour starts: n turns,
\* user and model alternating, the i-th holding a text of i characters, so
\* that no two turns are equal.  An odd n ends with a user turn whose
\* response was blank.
OldText(i) == [k \in 1..i |-> "x"]
Prefilled(n) ==
    [has_history |-> TRUE,
     history |-> [i \in 1..n |->
                    Turn(IF i % 2 = 1 THEN "user" ELSE "model", OldText(i))]]
StoreHistories == {NoHistory} \cup { Prefilled(n) : n \in 0..maxlen }

\* The text updates of StoreSpec: one plain text, in any chat.
StoreTextUpdates == { TextUpdate(c, <<"h", "i">>, "none") : c \in Chats }

\* The bot after one chat has built up a history of any length up to maxlen.
StoreInit ==
    /\ chat_reply_modes = <<>>
    /\ \E c0 \in Chats, h \in StoreHistories :
          chat_data = [c \in Chats |-> IF c = c0 THEN h ELSE NoHistory]
    /\ pc = "idle"
    /\ update = NoUpdate
    /\ prompt = NoText
    /\ h_before = <<>>
    /\ request = NoRequest
    /\ outcome = "none"
    /\ response = NoText
    /\ raw_answer = NoText
    /\ sent = <<>>
    /\ gen_calls = 0
    /\ modes_before = chat_reply_modes
    /\ fuel = MaxUpdates
    /\ WebInit

StoreNext ==
    \/ dispatcher_free /\ \E u \in StoreTextUpdates : handle_message(u)
    \/ generate_gemini_answer_call
    \/ \E text \in Responses : send_message_returns(text)
    \/ \E exc \in Exceptions : send_message_raises(exc)
    \/ reply_text

StoreSpec == StoreInit /\ [][StoreNext]_vars

\* The registries /replymode commands can have left behind: any flags for
\* any set of group chats.
Registries == UNION { [D -> BOOLEAN] : D \in SUBSET GroupChats }

\* The bot with any registry, handling one text update of any text.
RouteInit ==
    /\ chat_reply_modes \in Registries
    /\ chat_data = [c \in Chats |-> NoHistory]
    /\ pc = "idle"
    /\ update = NoUpdate
    /\ prompt = NoText
    /\ h_before = <<>>
    /\ request = NoRequest
    /\ outcome = "none"
    /\ response = NoText
    /\ raw_answer = NoText
    /\ sent = <<>>
    /\ gen_calls = 0
    /\ modes_before = chat_reply_modes
    /\ fuel = 1
    /\ WebInit

RouteNext ==
    \/ dispatcher_free /\ \E u \in RouteTextUpdates : handle_message(u)
    \/ generate_gemini_answer_call
    \/ \E text \in Responses : send_message_returns(text)
    \/ \E exc \in Exceptions : send_message_raises(exc)
    \/ reply_text

RouteSpec == RouteInit /\ [][RouteNext]_vars

\* A command as CommandHandler also takes it: sent, or made by editing a
\* message (update.message is then None).
CommandUpdatesOf(kind, argss) ==
    { CommandUpdate(kind, c, a) : c \in Chats, a \in argss }
        \cup { [CommandUpdate(kind, c, a) EXCEPT !.has_message = FALSE] :
                  c \in Chats, a \in argss }

AnyChatAskUpdates == CommandUpdatesOf("ask", AskArgs)
AnyChatTipUpdates == CommandUpdatesOf("tip", {<<>>})
AnyChatExampleUpdates == CommandUpdatesOf("example", {<<>>})
AnyChatQuizUpdates == CommandUpdatesOf("quiz", {<<>>})
AnyChatFunfactUpdates == CommandUpdatesOf("funfact", {<<>>})
AnyChatRulesUpdates == CommandUpdatesOf("rules", {<<>>})

\* The bot with any registry, one chat with or without two turns of history,
\* handling one generating command of any chat.
CommandInit ==
    /\ chat_reply_modes \in Registries
    /\ \E c0 \in Chats, h \in {NoHistory, Prefilled(2)} :
          chat_data = [c \in Chats |-> IF c = c0 THEN h ELSE NoHistory]
    /\ pc = "idle"
    /\ update = NoUpdate
    /\ prompt = NoText
    /\ h_before = <<>>
    /\ request = NoRequest
    /\ outcome = "none"
    /\ response = NoText
    /\ raw_answer = NoText
    /\ sent = <<>>
    /\ gen_calls = 0
    /\ modes_before = chat_reply_modes
    /\ fuel = 1
    /\ WebInit

CommandNext ==
    \/ dispatcher_free /\ \E u \in AnyChatAskUpdates : ask(u)
    \/ dispatcher_free /\ \E u \in AnyChatTipUpdates : tip(u)
    \/ dispatcher_free /\ \E u \in AnyChatExampleUpdates : example(u)
    \/ dispatcher_free /\ \E u \in AnyChatQuizUpdates : quiz(u)
    \/ dispatcher_free /\ \E u \in AnyChatFunfactUpdates : funfact(u)
    \/ dispatcher_free /\ \E u \in AnyChatRulesUpdates : rules(u)
    \/ generate_gemini_answer_call
    \/ \E text \in Responses : send_message_returns(text)
    \/ \E exc \in Exceptions : send_message_raises(exc)
    \/ reply_text

CommandSpec == CommandInit /\ [][CommandNext]_vars

\* The web panel serving requests of the browsers, in any order.
WebNext ==
    \/ \E cl \in Clients, method \in {"GET", "POST"}, form \in Forms :
          login(cl, IF method = "GET" THEN "GET" ELSE "POST",
                    IF method = "GET" THEN <<>> ELSE form)
    \/ \E cl \in Clients : logout(cl)
    \/ \E cl \in Clients : index(cl)
    \/ \E cl \in Clients : log_stream(cl)
    \/ \E cl \in Clients : list_files(cl)
    \/ \E cl \in Clients, filepath \in FilePaths : view_file(cl, filepath)
    \/ \E cl \in Clients, filepath \in FilePaths : download_file(cl, filepath)
    \/ \E cl \in Clients : download_zip(cl)

WebSpec == Init /\ [][WebNext]_vars

\* ============================================================== properties
\* Vocabulary of the properties, stated without the operators of the model.
Minimum(a, b) == IF a <= b THEN a ELSE b

\* The generation call of the current update has returned to its caller.
CallReturned == pc \in {"returned", "idle"} /\ outcome # "none"

\* The text is empty or holds whitespace only.
IsBlank(t) == \A i \in 1..Len(t) : t[i] \in Whitespace

\* The first place the bot handle occurs in t, 0 when it does not occur.
HandleAt(t, i) ==
    /\ i + Len(bot_username) - 1 <= Len(t)
    /\ SubSeq(t, i, i + Len(bot_username) - 1) = bot_username
FirstHandle(t) ==
    IF \E i \in 1..Len(t) : HandleAt(t, i)
    THEN CHOOSE i \in 1..Len(t) :
            HandleAt(t, i) /\ \A j \in 1..(i - 1) : ~HandleAt(t, j)
    ELSE 0
HasHandle(t) == FirstHandle(t) # 0

\* t without the first occurrence of the handle.
WithoutFirstHandle(t) ==
    LET i == FirstHandle(t)
    IN IF i = 0 THEN t
       ELSE SubSeq(t, 1, i - 1) \o SubSeq(t, i + Len(bot_username), Len(t))

\* t without any occurrence of the handle: the first one is removed, then
\* the first one of what follows it, and so on.
RECURSIVE WithoutHandles(_)
WithoutHandles(t) ==
    LET i == FirstHandle(t)
    IN IF i = 0 THEN t
       ELSE SubSeq(t, 1, i - 1)
              \o WithoutHandles(SubSeq(t, i + Len(bot_username), Len(t)))

\* t from its first to its last non-whitespace character.
Trimmed(t) ==
    LET inked == { i \in 1..Len(t) : t[i] \notin Whitespace }
    IN IF inked = {} THEN <<>>
       ELSE SubSeq(t, CHOOSE i \in inked : \A j \in inked : i <= j,
                      CHOOSE i \in inked : \A j \in inked : j <= i)

\* The current update is a text message (not an edit) that reached handle_message.
IsTextMessage == update.kind = "text" /\ update.has_message
FlagSet(c) == c \in DOMAIN chat_reply_modes /\ chat_reply_modes[c]
InPrivate == IsTextMessage /\ update.chat \in PrivateChats
InGroupAll == IsTextMessage /\ update.chat \in GroupChats /\ ~FlagSet(update.chat)
InGroupMention == IsTextMessage /\ update.chat \in GroupChats /\ FlagSet(update.chat)
Addressed == update.reply_to = "bot" \/ HasHandle(update.text)

\* The handler of the current update went into generate_and_reply.
Generating == pc \in {"typing", "remote", "returned"} \/ (pc = "idle" /\ gen_calls >= 1)
\* The handler of the current update has finished.
Handled == pc = "idle" /\ update.kind # "none"

\* C1: after a generation call whose remote call raised, the chat's history
\* is, turn for turn, the history the call started from.
C1_Rollback ==
    (CallReturned /\ outcome \in Exceptions)
        => history_of(update.chat) = h_before

\* C2: no chat's history ever holds more than 20 turns, the states between
\* the append of the user turn and the end of the call included.
C2_Capacity == \A c \in Chats : Len(history_of(c)) <= 20

C2_Witness ==
    /\ pc = "remote"
    /\ Len(h_before) = 20
    /\ Len(history_of(update.chat)) = 20

\* C3 as stated: after every successful call the history is
\* min(previous length + 2, 20) long, whatever text came back.
C3_LengthPlusTwo ==
    (CallReturned /\ outcome = "ok")
        => Len(history_of(update.chat)) = Minimum(Len(h_before) + 2, 20)

\* C3 amended: after a successful call the history is
\* min(previous length + 2, 20) long when the returned text is not blank and
\* min(previous length + 1, 20) long when it is blank.
C3_LengthAfterSuccess ==
    (CallReturned /\ outcome = "ok")
        => Len(history_of(update.chat)) =
              Minimum(Len(h_before) + (IF IsBlank(raw_answer) THEN 1 ELSE 2), 20)

C3_Witness ==
    /\ CallReturned /\ outcome = "ok"
    /\ ~IsBlank(raw_answer)
    /\ Len(h_before) = 19
    /\ Len(history_of(update.chat)) = 20
    /\ fuel = 0

\* C4: in a group whose flag is true, a text message leads to a generation
\* call exactly when it replies to the bot or holds the bot handle; when it
\* does neither, nothing is sent, no call is made and chat_data is unchanged.
C4_RoutingRule3 ==
    /\ [](InGroupMention => (Generating <=> Addressed))
    /\ []((InGroupMention /\ ~Addressed) => (sent = <<>> /\ gen_calls = 0))
    /\ [][(pc = "idle" /\ update'.kind = "text" /\ update'.has_message
             /\ update'.chat \in GroupChats /\ FlagSet(update'.chat)
             /\ ~(update'.reply_to = "bot" \/ HasHandle(update'.text)))
            => (chat_data' = chat_data /\ pc' = "idle")]_vars

C4_Witness ==
    /\ InGroupMention /\ ~Addressed
    /\ update.reply_to = "user"
    /\ update.text = <<"b", "@", " ", "b">>
    /\ Handled

\* C5 as stated: the prompt of a reply in a group whose flag is true is the
\* text without the first occurrence of the handle, trimmed.
C5_FirstHandleRemoved ==
    (InGroupMention /\ Generating)
        => prompt = Trimmed(WithoutFirstHandle(update.text))

\* C5 amended: the prompt of a reply in a group whose flag is true is the
\* text without any occurrence of the handle, trimmed.
C5_EveryHandleRemoved ==
    (InGroupMention /\ Generating)
        => prompt = Trimmed(WithoutHandles(update.text))

C5_Witness ==
    /\ InGroupMention /\ Generating
    /\ update.text = <<"@", "b", "@", "b">>
    /\ prompt = <<>>
    /\ request.made

\* C6: a text message handled by handle_message makes one generation call
\* when a routing rule produces a reply and none when rule 3's condition
\* fails; no update makes two, a failed call included.
C6_ExactlyOnce ==
    /\ gen_calls <= 1
    /\ (IsTextMessage /\ Handled)
          => gen_calls = (IF InPrivate \/ InGroupAll \/ Addressed THEN 1 ELSE 0)

C6_Witness ==
    /\ IsTextMessage /\ Handled
    /\ outcome \in Exceptions
    /\ gen_calls = 1

\* C7: a text message in a private chat leads to a generation call whose
\* prompt is the whole text, whatever the registry holds and whether or not
\* the text holds the handle.
C7_PrivateFullText ==
    InPrivate => (Generating /\ prompt = update.text
                    /\ (request.made => request.message = update.text))

C7_Witness ==
    /\ InPrivate
    /\ HasHandle(update.text)
    /\ \E c \in DOMAIN chat_reply_modes : chat_reply_modes[c]
    /\ request.made
    /\ request.message = update.text

\* C8: a text message in a group whose flag is false or was never set leads
\* to a generation call whose prompt is the whole text, handle included.
C8_GroupAllFullText ==
    InGroupAll => (Generating /\ prompt = update.text
                     /\ (request.made => request.message = update.text))

C8_Witness ==
    /\ InGroupAll
    /\ update.chat \notin DOMAIN chat_reply_modes
    /\ HasHandle(update.text)
    /\ request.made
    /\ request.message = update.text

C10_NonBlocking ==
    (pc = "remote" /\ fuel > 0)
        => ENABLED (\E u \in SpecTextUpdates :
                       u.chat # update.chat /\ handle_message(u))

\* Two letters that are the same up to case.
CasePairs ==
    { <<"A", "a">>, <<"E", "e">>, <<"F", "f">>, <<"L", "l">>, <<"N", "n">>,
      <<"O", "o">>, <<"R", "r">>, <<"S", "s">>, <<"T", "t">>, <<"U", "u">>,
      <<"Y", "y">> }
SameLetter(a, b) == a = b \/ <<a, b>> \in CasePairs \/ <<b, a>> \in CasePairs
EqualsIgnoringCase(w, v) ==
    Len(w) = Len(v) /\ \A i \in 1..Len(w) : SameLetter(w[i], v[i])
MeansTrue(w) ==
    \E v \in { <<"t", "r", "u", "e">>, <<"o", "n">>, <<"y", "e", "s">> } :
        EqualsIgnoringCase(w, v)
MeansFalse(w) ==
    \E v \in { <<"f", "a", "l", "s", "e">>, <<"o", "f", "f">>, <<"n", "o">> } :
        EqualsIgnoringCase(w, v)

\* The handler of a /replymode command has finished.
ModeHandled == Handled /\ update.kind = "replymode"
\* ... of one sent with arguments in a group chat.
ModeSetHandled == ModeHandled /\ update.chat \in GroupChats /\ update.args # <<>>
\* ... of one sent without arguments in a group chat.
ModeReadHandled == ModeHandled /\ update.chat \in GroupChats /\ update.args = <<>>

\* C11: after /replymode with arguments in a group chat, the chat's flag is
\* true when the first argument is true, on or yes in any case, false when it
\* is false, off or no in any case; for any other first argument the
\* registry is what it was before the command and the one message sent is
\* the invalid-option notice.
C11_ModeValidation ==
    ModeSetHandled =>
        LET c == update.chat
            w == update.args[1]
        IN /\ MeansTrue(w) => (c \in DOMAIN chat_reply_modes /\ chat_reply_modes[c] = TRUE)
           /\ MeansFalse(w) => (c \in DOMAIN chat_reply_modes /\ chat_reply_modes[c] = FALSE)
           /\ (~MeansTrue(w) /\ ~MeansFalse(w)) =>
                  /\ chat_reply_modes = modes_before
                  /\ sent = <<Reply(c, INVALID_OPTION)>>

\* "maybe" is refused in a chat whose flag an earlier "On" had set.
C11_Witness ==
    /\ ModeSetHandled
    /\ update.args[1] = <<"m", "a", "y", "b", "e">>
    /\ update.chat \in DOMAIN modes_before
    /\ modes_before[update.chat] = TRUE
    /\ chat_reply_modes = modes_before
    /\ sent = <<Reply(update.chat, INVALID_OPTION)>>

\* C12: after /replymode in a private chat, whatever its arguments, the
\* registry is what it was before the command and the one message sent says
\* that the command is only for group chats.
C12_PrivateRejected ==
    (ModeHandled /\ update.chat \in PrivateChats) =>
        /\ chat_reply_modes = modes_before
        /\ sent = <<Reply(update.chat, ONLY_GROUPS)>>

\* /replymode true is refused in a private chat while a group chat has a flag.
C12_Witness ==
    /\ ModeHandled
    /\ update.chat \in PrivateChats
    /\ update.args = <<<<"t", "r", "u", "e">>>>
    /\ chat_reply_modes = modes_before
    /\ DOMAIN chat_reply_modes # {}
    /\ sent = <<Reply(update.chat, ONLY_GROUPS)>>

\* Message msg tells chat c the mode name m.
Reports(msg, c, m) ==
    /\ msg.type = "reply"
    /\ msg.chat = c
    /\ \E k \in 1..Len(msg.text) : msg.text[k] = m

\* C13: after /replymode without arguments in a group chat, a message sent
\* to the chat names the mode "mention/reply" when the chat's flag was last
\* set to true, and "all messages" when it was last set to false or never
\* set; the registry is what it was before the command.
C13_ModeRoundTrip ==
    ModeReadHandled =>
        /\ chat_reply_modes = modes_before
        /\ \E i \in 1..Len(sent) :
              Reports(sent[i], update.chat,
                      IF FlagSet(update.chat) THEN "mention/reply" ELSE "all messages")

\* C14: a step that changes the registry is the handling of a /replymode
\* command of a group chat whose first argument is an accepted word; every
\* entry but that chat's is left as it was, none is created but that chat's,
\* and no step removes an entry.
C14_RegistryFrame ==
    [][ /\ DOMAIN chat_reply_modes \subseteq DOMAIN chat_reply_modes'
        /\ chat_reply_modes' # chat_reply_modes =>
              /\ update'.kind = "replymode"
              /\ update'.chat \in GroupChats
              /\ update'.args # <<>>
              /\ MeansTrue(update'.args[1]) \/ MeansFalse(update'.args[1])
              /\ \A c \in DOMAIN chat_reply_modes' \ {update'.chat} :
                    /\ c \in DOMAIN chat_reply_modes
                    /\ chat_reply_modes'[c] = chat_reply_modes[c]
      ]_vars

\* A set in one group chat has added an entry next to the other chat's.
C14_Witness ==
    /\ ModeSetHandled
    /\ DOMAIN chat_reply_modes = GroupChats
    /\ DOMAIN modes_before = GroupChats \ {update.chat}
    /\ \A c \in DOMAIN modes_before : chat_reply_modes[c] = modes_before[c]

\* The last 20 turns of h.
LastTwenty(h) == IF Len(h) > 20 THEN SubSeq(h, Len(h) - 19, Len(h)) ELSE h

\* The generation call of the current update has returned a response text.
CallSucceeded == CallReturned /\ outcome = "ok"

\* C15: after a generation call whose remote call returned a text, the
\* chat's history is the history the request carried, followed by a model
\* turn holding the text exactly when the text is not blank; the value the
\* call returned is the text, blank or not.
C15_ModelTurnIffNonBlank ==
    CallSucceeded =>
        /\ raw_answer = response
        /\ history_of(update.chat) =
              IF IsBlank(response) THEN request.history
              ELSE LastTwenty(request.history
                                \o <<[role |-> "model", parts |-> <<response>>]>>)

\* A blank text was returned: no model turn, and the blank text handed back.
C15_Witness ==
    /\ CallSucceeded
    /\ response # <<>>
    /\ IsBlank(response)
    /\ raw_answer = response
    /\ history_of(update.chat) = request.history
    /\ Len(request.history) = Len(h_before) + 1

\* The handler of a /replymode command with an accepted first argument, sent
\* in a group chat, has finished.
ModeAccepted ==
    /\ ModeSetHandled
    /\ MeansTrue(update.args[1]) \/ MeansFalse(update.args[1])

\* C17: every accepted /replymode command of a group chat is answered with
\* the confirmation of the value it asks for, and when the chat's flag had
\* that value already (the command before had set it) the registry is left
\* exactly as the first command left it.
C17_SetIdempotent ==
    ModeAccepted =>
        LET c == update.chat
            v == MeansTrue(update.args[1])
        IN /\ sent = <<Reply(c, IF v THEN NOW_MENTION_ONLY ELSE NOW_ALL_MESSAGES)>>
           /\ (c \in DOMAIN modes_before /\ modes_before[c] = v)
                 => chat_reply_modes = modes_before

\* The second of two commands that set the same chat's flag to true.
C17_Witness ==
    /\ ModeAccepted
    /\ fuel = MaxUpdates - 2
    /\ MeansTrue(update.args[1])
    /\ update.chat \in DOMAIN modes_before
    /\ modes_before[update.chat] = TRUE
    /\ chat_reply_modes = modes_before
    /\ sent = <<Reply(update.chat, NOW_MENTION_ONLY)>>

\* The views behind the login and, of these, the ones that answer 401.
ProtectedViews ==
    {"index", "log_stream", "list_files", "view_file", "download_file", "download_zip"}
JsonViews == {"list_files", "log_stream", "view_file"}

\* C18: on every request to the web panel, the body of a protected view runs
\* only if the browser's logged_in flag is set; a flag becomes set only for
\* the browser that POSTs the configured password to /login; /logout leaves
\* the browser's flag cleared; and a request to a protected view without the
\* flag is answered 401 on /files, /log_stream and /view and redirected to
\* the login page on /, /download and /download_zip.
C18_PanelAuthentication ==
    [][ LET cl == web_request'.client
            view == web_request'.endpoint
        IN /\ web_response'.ran \in ProtectedViews =>
                 (session[cl] /\ web_response'.ran = view)
           /\ \A k \in Clients :
                 (~session[k] /\ session'[k]) =>
                     /\ k = cl
                     /\ view = "login"
                     /\ web_request'.method = "POST"
                     /\ web_request'.form = <<FLASK_PASSWORD>>
           /\ view = "logout" => ~session'[cl]
           /\ \A k \in Clients :
                 (session[k] /\ ~session'[k]) => (k = cl /\ view = "logout")
           /\ (view \in ProtectedViews /\ ~session[cl]) =>
                 /\ web_response'.ran = "none"
                 /\ IF view \in JsonViews
                    THEN web_response'.status = 401
                    ELSE /\ web_response'.status = 302
                         /\ web_response'.location = "login"
      ]_vars

\* One browser is logged in; the other asks for a file to view and gets 401.
C18_Witness ==
    /\ web_request.endpoint = "view_file"
    /\ ~session[web_request.client]
    /\ \E k \in Clients : session[k]
    /\ web_response.status = 401
    /\ web_response.ran = "none"

\* The step appends the user turn of the call, or the model turn of a call
\* that returned a text that is not blank.
AppendsUserTurn == pc = "typing" /\ pc' = "remote"
AppendsModelTurn == pc = "remote" /\ outcome' = "ok" /\ ~IsBlank(response')

\* C19: a step that appends a turn to a history of 20 turns leaves 20 turns:
\* the 19 that followed the oldest one, in their order, and then the new
\* turn; an append to a shorter history removes nothing.
C19_FifoEviction ==
    [][ (AppendsUserTurn \/ AppendsModelTurn) =>
          LET c == update.chat
              old == chat_data[c].history
              new == chat_data'[c].history
              turn == IF AppendsUserTurn
                      THEN [role |-> "user", parts |-> <<prompt>>]
                      ELSE [role |-> "model", parts |-> <<response'>>]
          IN IF Len(old) = 20
             THEN /\ Len(new) = 20
                  /\ \A i \in 1..19 : new[i] = old[i + 1]
                  /\ new[20] = turn
             ELSE new = old \o <<turn>>
      ]_vars

\* A call on a full history has appended both its turns: the two oldest
\* turns are gone and the other 18 are followed by the two new ones.
C19_Witness ==
    /\ pc = "returned"
    /\ outcome = "ok"
    /\ Len(h_before) = 20
    /\ history_of(update.chat) =
          SubSeq(h_before, 3, 20)
            \o <<[role |-> "user", parts |-> <<prompt>>],
                 [role |-> "model", parts |-> <<response>>]>>

\* C20: a step of the handler of an update of chat A leaves what is stored
\* for every other chat as it was; a chat gets its history, empty, on the
\* step that takes a generation request of that chat and finds none, and
\* keeps it from then on; and the history handed to the model is the stored
\* history of chat A followed by the user turn of the request.
C20_ChatIsolation ==
    [][ /\ \A c \in Chats \ {update'.chat} : chat_data'[c] = chat_data[c]
        /\ \A c \in Chats :
              /\ chat_data[c].has_history => chat_data'[c].has_history
              /\ (~chat_data[c].has_history /\ chat_data'[c].has_history) =>
                    /\ pc = "idle" /\ pc' = "typing"
                    /\ c = update'.chat
                    /\ chat_data'[c].history = <<>>
        /\ pc' = "typing" => chat_data'[update'.chat].has_history
        /\ (pc = "typing" /\ pc' = "remote") =>
              request'.history =
                  LastTwenty(chat_data[update.chat].history
                               \o <<[role |-> "user", parts |-> <<prompt>>]>>)
      ]_vars

\* A request of one chat is in flight with that chat's single turn, while
\* another chat holds the two turns of its own call and a third has no
\* history yet.
C20_Witness ==
    /\ pc = "remote"
    /\ request.history = <<[role |-> "user", parts |-> <<prompt>>]>>
    /\ request.history = history_of(update.chat)
    /\ \E b \in Chats \ {update.chat} :
          chat_data[b].has_history /\ Len(history_of(b)) = 2
    /\ \E d \in Chats : ~chat_data[d].has_history

\* A generation call of chat c is in flight.
InFlight(c) == pc = "remote" /\ update.chat = c
\* The history ends with a user turn.
EndsWithUserTurn(h) == h # <<>> /\ h[Len(h)].role = "user"
\* No call of chat c is in flight and its history ends with a user turn.
OrphanAtRest(c) == ~InFlight(c) /\ EndsWithUserTurn(history_of(c))

\* C22 as claimed: whenever no generation call is in flight for a chat, the
\* chat's history is empty or ends with a model turn.
C22_NoOrphanAtRest == \A c \in Chats : ~OrphanAtRest(c)

\* C22 amended: a chat's history comes to end with a user turn, with no call
\* in flight, only when a call returns a text that is blank (its user turn
\* stays and no model turn follows), or when a call fails on a history that
\* ended with such a user turn before the call; a failed call never leaves
\* its own user turn.
C22_OrphanOnlyFromBlank ==
    [][ \A c \in Chats :
          (~OrphanAtRest(c) /\ OrphanAtRest(c)') =>
              /\ InFlight(c)
              /\ \/ outcome' = "ok" /\ IsBlank(response')
                 \/ outcome' \in Exceptions /\ EndsWithUserTurn(h_before)
      ]_vars

\* A call returned a blank text and left its user turn last; the next call
\* of the chat failed and left the history as that first call had left it.
C22_Witness ==
    /\ Handled
    /\ outcome \in Exceptions
    /\ OrphanAtRest(update.chat)
    /\ history_of(update.chat) = h_before
    /\ Len(h_before) = 1

\* C23: while the remote call of an update is in flight, the history it was
\* given is the chat's stored history, whose last turn is the user turn of
\* the prompt and whose other turns are the last (at most 19) turns the
\* chat had before; the message it was given is the same prompt.
C23_SnapshotHoldsPrompt ==
    pc = "remote" =>
        LET turn == [role |-> "user", parts |-> <<prompt>>]
        IN /\ request.made
           /\ request.history = history_of(update.chat)
           /\ request.history[Len(request.history)] = turn
           /\ request.history = LastTwenty(h_before \o <<turn>>)
           /\ request.message = prompt

\* The call of a chat with 20 turns: the oldest is not in the snapshot.
C23_Witness ==
    /\ pc = "remote"
    /\ Len(h_before) = 20
    /\ request.history =
          SubSeq(h_before, 2, 20) \o <<[role |-> "user", parts |-> <<prompt>>]>>
    /\ request.message = prompt

\* The update is one of /tip, /example, /quiz, /funfact, /rules, or /ask
\* with a question, sent as a message.
BypassCommand(u) ==
    /\ u.has_message
    /\ \/ u.kind \in {"tip", "example", "quiz", "funfact", "rules"}
       \/ u.kind = "ask" /\ u.args # <<>>
\* The update is /ask without a question, sent as a message.
AskWithoutQuestion(u) == u.has_message /\ u.kind = "ask" /\ u.args = <<>>

\* C24: the handler of /tip, /example, /quiz, /funfact, /rules or /ask with
\* a question goes into generation as soon as it is entered, in a private
\* chat and in a group chat whatever its flag, and has invoked generation
\* exactly once when it has finished; the handler of /ask without a question
\* finishes at once with the usage notice, no generation call, and every
\* chat's stored history as it was.
C24_CommandsBypassGate ==
    [][ /\ (fuel' < fuel /\ BypassCommand(update')) => pc' = "typing"
        /\ BypassCommand(update') => gen_calls' <= 1
        /\ (pc' = "idle" /\ BypassCommand(update')) => gen_calls' = 1
        /\ (fuel' < fuel /\ AskWithoutQuestion(update')) =>
              /\ pc' = "idle"
              /\ gen_calls' = 0
              /\ chat_data' = chat_data
              /\ sent' = <<Reply(update'.chat, ASK_USAGE)>>
      ]_vars

\* /tip was answered in a group chat whose flag is true, with no mention
\* and not as a reply to the bot.
C24_Witness ==
    /\ Handled
    /\ update.kind = "tip"
    /\ update.has_message
    /\ update.chat \in GroupChats
    /\ FlagSet(update.chat)
    /\ ~Addressed
    /\ gen_calls = 1
    /\ Len(sent) = 2
    /\ sent[2].type = "reply"

\* A reply is among the messages.
HasReply(msgs) == \E i \in 1..Len(msgs) : msgs[i].type = "reply"

\* C25: when the generation call of an update starts, the typing indicator
\* of its chat has been sent and nothing else; nothing is sent while the
\* call is in flight; and the reply of a generating handler is sent by a
\* step taken after the call has returned.
C25_EventOrder ==
    [][ /\ (pc # "remote" /\ pc' = "remote") =>
              /\ sent = <<[type |-> "typing", chat |-> update.chat, text |-> <<>>]>>
              /\ sent' = sent
        /\ pc = "remote" => (sent' = sent /\ ~HasReply(sent))
        /\ (Generating' /\ HasReply(sent') /\ sent' # sent) =>
              /\ pc = "returned"
              /\ outcome # "none"
              /\ pc' = "idle"
              /\ sent' = Append(sent, sent'[Len(sent')])
      ]_vars

\* A text message answered: the typing indicator, then the call, then the reply.
C25_Witness ==
    /\ Handled
    /\ update.kind = "text"
    /\ outcome = "ok"
    /\ request.made
    /\ Len(sent) = 2
    /\ sent[1].type = "typing"
    /\ sent[2].type = "reply"
    /\ sent[2].chat = update.chat

====
